---- MODULE Spec2Model ----
(***************************************************************************)
(* topocontrol.py: topology control of a GeoJSON collection.               *)
(*                                                                         *)
(* main() reads the collection, reprojects it, classifies every geometry   *)
(* on its own (selfcross / invalid), classifies every unordered pair with  *)
(* the cascade duplicate -> overlap -> near, prints the six counts, writes *)
(* the flagged geometries (sorted by index) and then the report.           *)
(*                                                                         *)
(* Geometries are drawn from a small catalogue of shapes.  A shape carries *)
(* the answers the geometry library gives for it: its class, is_simple,    *)
(* is_valid, and a footprint [lo, hi] on one axis from which the pairwise  *)
(* predicates equals / intersects / touches / distance are computed.       *)
(***************************************************************************)
EXTENDS Integers, Sequences, FiniteSets, TLC

\* Largest collection size explored.
MaxN == 3

\* Values of -t/--terskel explored (the distances of the catalogue are 0..6).
Thresholds == {1, 2}

-----------------------------------------------------------------------------
(* The geometry catalogue *)

Shape(kind, simple, valid, lo, hi) ==
    [kind |-> kind, simple |-> simple, valid |-> valid, lo |-> lo, hi |-> hi]

\* A feature without geometry: gdf.geometry.iloc[idx] is None.
NullGeom == Shape("None", TRUE, TRUE, 0, 0)

\* The geometries a collection is built from (after to_crs).
Shapes ==
    { Shape("LineString",      TRUE,  TRUE,  0, 2),   \* plain line
      Shape("Polygon",         TRUE,  TRUE,  1, 3),   \* plain polygon, overlaps the line
      Shape("LineString",      FALSE, TRUE,  4, 5),   \* figure-eight line
      Shape("LineString",      FALSE, FALSE, 5, 6),   \* bow-tie LinearRing
      Shape("Polygon",         TRUE,  FALSE, 8, 9),   \* bow-tie polygon
      Shape("MultiLineString", FALSE, TRUE,  2, 3),   \* crossing multi-line
      NullGeom }

\* isinstance(geom, LineString); LinearRing is a subclass of LineString.
IsLineString(g) == g.kind = "LineString"

\* isinstance(geom, BaseGeometry)
IsBaseGeometry(g) == g.kind # "None"

\* geom1.equals(geom2); False against a missing geometry.
equals(g1, g2) ==
    IsBaseGeometry(g2) /\ g1.lo = g2.lo /\ g1.hi = g2.hi

\* geom1.intersects(geom2)
intersects(g1, g2) ==
    IsBaseGeometry(g2) /\ g1.lo <= g2.hi /\ g2.lo <= g1.hi

\* geom1.touches(geom2): the footprints meet in a boundary point only.
touches(g1, g2) ==
    IsBaseGeometry(g2) /\ (g1.hi = g2.lo \/ g2.hi = g1.lo)

\* geom1.distance(geom2) for two geometries.
distance(g1, g2) ==
    IF g2.lo > g1.hi THEN g2.lo - g1.hi
    ELSE IF g1.lo > g2.hi THEN g1.lo - g2.hi
    ELSE 0

\* Variant: the comparison is not strict.
DistanceBelow_Inclusive(g1, g2, t) ==
    IsBaseGeometry(g2) /\ distance(g1, g2) <= t

\* Variant: the comparison is turned around.
DistanceBelow_Reversed(g1, g2, t) ==
    IsBaseGeometry(g2) /\ distance(g1, g2) > t

\* geom1.distance(geom2) < args.terskel; the distance to a missing geometry
\* is nan, and nan < t is False.
DistanceBelow(g1, g2, t) ==
    IsBaseGeometry(g2) /\ distance(g1, g2) < t

\* What calling the pairwise predicates on (geom1, geom2) can do.  A method
\* call on None raises AttributeError.  With None as the argument the outcome
\* depends on the installed geometry library: it raises, or it answers
\* False / nan.
PredicateOutcomes(g1, g2) ==
    IF ~IsBaseGeometry(g1) THEN {"raise"}
    ELSE IF ~IsBaseGeometry(g2) THEN {"raise", "ok"}
    ELSE {"ok"}

-----------------------------------------------------------------------------
(* Pure parts of main() *)

PairCats == {"duplicate", "overlap", "near"}
Cats == {"selfcross", "invalid"} \cup PairCats
Keys == Cats \cup {"all"}

\* sets = {key: set() for key in [...]}; sets['all'] = set()
EmptySets == [c \in Keys |-> {}]

\* Variant: validity is tested before simplicity.
SingleClass_ValidFirst(g) ==
    IF IsBaseGeometry(g) /\ ~g.valid THEN "invalid"
    ELSE IF IsLineString(g) /\ ~g.simple THEN "selfcross"
    ELSE "none"

\* The branch of the single check a geometry takes.
SingleClass(g) ==
    IF IsLineString(g) /\ ~g.simple THEN "selfcross"
    ELSE IF IsBaseGeometry(g) /\ ~g.valid THEN "invalid"
    ELSE "none"

\* Variant: the second test is an if, not an elif.
SingleCheck_BothBranches(s, idx, g) ==
    LET a == IF IsLineString(g) /\ ~g.simple THEN {"selfcross"} ELSE {}
        b == IF IsBaseGeometry(g) /\ ~g.valid THEN {"invalid"} ELSE {}
    IN  [c \in Keys |->
            IF c \in a \cup b \/ (c = "all" /\ a \cup b # {})
            THEN s[c] \cup {idx}
            ELSE s[c]]

\* One iteration of the single check.
SingleCheck(s, idx, g) ==
    LET c == SingleClass(g)
    IN  IF c = "none" THEN s
        ELSE [s EXCEPT ![c] = @ \cup {idx}, !["all"] = @ \cup {idx}]

\* Variant: three independent ifs instead of if / elif / elif.
Cascade_NoElif(g1, g2, t) ==
    (IF equals(g1, g2) THEN {"duplicate"} ELSE {}) \cup
    (IF intersects(g1, g2) /\ ~touches(g1, g2) THEN {"overlap"} ELSE {}) \cup
    (IF DistanceBelow(g1, g2, t) THEN {"near"} ELSE {})

\* The categories the if / elif / elif cascade updates for one pair.
Cascade(g1, g2, t) ==
    IF equals(g1, g2) THEN {"duplicate"}
    ELSE IF intersects(g1, g2) /\ ~touches(g1, g2) THEN {"overlap"}
    ELSE IF DistanceBelow(g1, g2, t) THEN {"near"}
    ELSE {}

\* Variant: the category set is updated, 'all' is not.
AddPair_ForgetAll(s, cats, idx1, idx2) ==
    [c \in Keys |-> IF c \in cats THEN s[c] \cup {idx1, idx2} ELSE s[c]]

\* sets[c].update([idx1, idx2]); sets['all'].update([idx1, idx2])
AddPair(s, cats, idx1, idx2) ==
    [c \in Keys |->
        IF c \in cats \/ (c = "all" /\ cats # {})
        THEN s[c] \cup {idx1, idx2}
        ELSE s[c]]

\* Variant: a near pair is not recorded when one of its members is flagged
\* already.
PairCheck_SkipFlagged(s, idx1, idx2, g1, g2, t) ==
    IF Cascade(g1, g2, t) = {"near"} /\ (idx1 \in s["all"] \/ idx2 \in s["all"])
    THEN s
    ELSE AddPair(s, Cascade(g1, g2, t), idx1, idx2)

\* One iteration of the pairwise check.
PairCheck(s, idx1, idx2, g1, g2, t) ==
    AddPair(s, Cascade(g1, g2, t), idx1, idx2)

\* Lexicographic order of index pairs.
PairBefore(p, q) == p[1] < q[1] \/ (p[1] = q[1] /\ p[2] < q[2])

RECURSIVE PairSeq(_)
PairSeq(S) ==
    IF S = {} THEN << >>
    ELSE LET m == CHOOSE p \in S : \A q \in S \ {p} : PairBefore(p, q)
         IN  <<m>> \o PairSeq(S \ {m})

\* combinations(range(n), 2)
Combinations(m) ==
    PairSeq({p \in (0..(m - 1)) \X (0..(m - 1)) : p[1] < p[2]})

RECURSIVE Sorted_Descending(_)
\* Variant: the order is descending.
Sorted_Descending(S) ==
    IF S = {} THEN << >>
    ELSE LET m == CHOOSE x \in S : \A y \in S : x >= y
         IN  <<m>> \o Sorted_Descending(S \ {m})

RECURSIVE Sorted(_)
\* sorted(sets['all'])
Sorted(S) ==
    IF S = {} THEN << >>
    ELSE LET m == CHOOSE x \in S : \A y \in S : x <= y
         IN  <<m>> \o Sorted(S \ {m})

\* The six numbers of the summary.
Summary(s) == [c \in Keys |-> Cardinality(s[c])]

-----------------------------------------------------------------------------
(* State *)

VARIABLES
    input,          \* the geometries of the file -i names
    terskel,        \* args.terskel of the current run
    pc,             \* where the current run of main() is
    gdf,            \* the loaded collection
    sets,           \* the category sets and 'all'
    idx,            \* loop variable of the single check
    k,              \* number of pairs taken from combinations(), plus one
    evald,          \* pair -> the category sets its evaluations updated
    counts,         \* the numbers printed in the summary
    extract,        \* the indices written to the error file by this run
    extractWritten, \* the error file was written by this run
    reportWritten,  \* the report file was written by this run
    prev            \* outcome of the previous completed run on this input

vars == <<input, terskel, pc, gdf, sets, idx, k, evald, counts, extract,
          extractWritten, reportWritten, prev>>

n == Len(gdf)

NoCounts == [c \in Keys |-> 0]
NoPrev == [run |-> FALSE]
NoEvals == [p \in {} |-> << >>]

Running == {"read", "reproject", "single", "pairs", "summary", "write", "report"}

Collections == UNION {[1..m -> Shapes] : m \in 0..MaxN}

Init ==
    /\ input \in Collections
    /\ terskel \in Thresholds
    /\ pc = "read"
    /\ gdf = << >>
    /\ sets = EmptySets
    /\ idx = 0
    /\ k = 1
    /\ evald = NoEvals
    /\ counts = NoCounts
    /\ extract = << >>
    /\ extractWritten = FALSE
    /\ reportWritten = FALSE
    /\ prev = NoPrev

\* The process ends early: its memory is gone, the files stay.
Exit(how) ==
    /\ pc' = how
    /\ gdf' = << >>
    /\ sets' = EmptySets
    /\ idx' = 0
    /\ k' = 1
    /\ evald' = NoEvals
    /\ counts' = NoCounts
    /\ UNCHANGED <<input, terskel, extract, extractWritten, reportWritten, prev>>

\* gdf = gpd.read_file(args.innfil)
Read ==
    /\ pc = "read"
    /\ gdf' = input
    /\ pc' = "reproject"
    /\ UNCHANGED <<input, terskel, sets, idx, k, evald, counts, extract,
                   extractWritten, reportWritten, prev>>

ReadFail ==
    /\ pc = "read"
    /\ Exit("failed")

\* gdf = gdf.to_crs(epsg=args.epsg), then the empty sets and n.
Reproject ==
    /\ pc = "reproject"
    /\ sets' = EmptySets
    /\ idx' = 0
    /\ pc' = "single"
    /\ UNCHANGED <<input, terskel, gdf, k, evald, counts, extract,
                   extractWritten, reportWritten, prev>>

ReprojectFail ==
    /\ pc = "reproject"
    /\ Exit("failed")

\* for idx in range(n): one iteration
SingleStep ==
    /\ pc = "single"
    /\ idx < n
    /\ sets' = SingleCheck(sets, idx, gdf[idx + 1])
    /\ idx' = idx + 1
    /\ UNCHANGED <<input, terskel, pc, gdf, k, evald, counts, extract,
                   extractWritten, reportWritten, prev>>

SingleDone ==
    /\ pc = "single"
    /\ idx = n
    /\ pc' = "pairs"
    /\ k' = 1
    /\ UNCHANGED <<input, terskel, gdf, sets, idx, evald, counts, extract,
                   extractWritten, reportWritten, prev>>

\* The body of the pairwise loop for the pair p = (idx1, idx2).
EvalPair(p) ==
    LET g1 == gdf[p[1] + 1]
        g2 == gdf[p[2] + 1]
    IN  \E o \in PredicateOutcomes(g1, g2) :
            IF o = "raise"
            THEN Exit("crashed")
            ELSE /\ sets' = PairCheck(sets, p[1], p[2], g1, g2, terskel)
                 /\ evald' =
                      IF p \in DOMAIN evald
                      THEN [evald EXCEPT ![p] = Append(@, Cascade(g1, g2, terskel))]
                      ELSE evald @@ (p :> <<Cascade(g1, g2, terskel)>>)
                 /\ k' = k + 1
                 /\ UNCHANGED <<input, terskel, pc, gdf, idx, counts, extract,
                                extractWritten, reportWritten, prev>>

\* for idx1, idx2 in combinations(range(n), 2): one iteration
PairStep ==
    /\ pc = "pairs"
    /\ k <= Len(Combinations(n))
    /\ EvalPair(Combinations(n)[k])

PairsDone ==
    /\ pc = "pairs"
    /\ k > Len(Combinations(n))
    /\ pc' = "summary"
    /\ UNCHANGED <<input, terskel, gdf, sets, idx, k, evald, counts, extract,
                   extractWritten, reportWritten, prev>>

\* The summary lines.
Summarise ==
    /\ pc = "summary"
    /\ counts' = Summary(sets)
    /\ pc' = "write"
    /\ UNCHANGED <<input, terskel, gdf, sets, idx, k, evald, extract,
                   extractWritten, reportWritten, prev>>

\* if sets['all']: gdf.loc[sorted(sets['all'])].to_file(...) else "Ingen feil funnet."
WriteExtract ==
    /\ pc = "write"
    /\ IF sets["all"] # {}
       THEN /\ extract' = Sorted(sets["all"])
            /\ extractWritten' = TRUE
       ELSE UNCHANGED <<extract, extractWritten>>
    /\ pc' = "report"
    /\ UNCHANGED <<input, terskel, gdf, sets, idx, k, evald, counts,
                   reportWritten, prev>>

WriteExtractFail ==
    /\ pc = "write"
    /\ sets["all"] # {}
    /\ Exit("failed")

\* with open(report_filename, 'w') ...: f.write(...)
WriteReport ==
    /\ pc = "report"
    /\ reportWritten' = TRUE
    /\ pc' = "done"
    /\ UNCHANGED <<input, terskel, gdf, sets, idx, k, evald, counts, extract,
                   extractWritten, prev>>

WriteReportFail ==
    /\ pc = "report"
    /\ Exit("failed")

\* SIGINT: signal_handler calls sys.exit(1).
Interrupt ==
    /\ pc \in Running
    /\ Exit("interrupted")

\* The program is run again on the same file, with any threshold.
Rerun ==
    /\ pc = "done"
    /\ prev = NoPrev
    /\ prev' = [run |-> TRUE, terskel |-> terskel, sets |-> sets, counts |-> counts]
    /\ terskel' \in Thresholds
    /\ pc' = "read"
    /\ gdf' = << >>
    /\ sets' = EmptySets
    /\ idx' = 0
    /\ k' = 1
    /\ evald' = NoEvals
    /\ counts' = NoCounts
    /\ extract' = << >>
    /\ extractWritten' = FALSE
    /\ reportWritten' = FALSE
    /\ UNCHANGED input

Next ==
    \/ Read
    \/ ReadFail
    \/ Reproject
    \/ ReprojectFail
    \/ SingleStep
    \/ SingleDone
    \/ PairStep
    \/ PairsDone
    \/ Summarise
    \/ WriteExtract
    \/ WriteExtractFail
    \/ WriteReport
    \/ WriteReportFail
    \/ Interrupt
    \/ Rerun

Spec == Init /\ [][Next]_vars

\* The pairwise loop with the order of the pairs left open: any pair not yet
\* evaluated may come next.  Every order of Spec is one of these orders.
PairStepAny ==
    /\ pc = "pairs"
    /\ \E p \in {q \in (0..(n - 1)) \X (0..(n - 1)) : q[1] < q[2]} \ DOMAIN evald :
           EvalPair(p)

NextAnyOrder ==
    \/ Read
    \/ ReadFail
    \/ Reproject
    \/ ReprojectFail
    \/ SingleStep
    \/ SingleDone
    \/ PairStepAny
    \/ PairsDone
    \/ Summarise
    \/ WriteExtract
    \/ WriteExtractFail
    \/ WriteReport
    \/ WriteReportFail
    \/ Interrupt
    \/ Rerun

SpecAnyOrder == Init /\ [][NextAnyOrder]_vars

-----------------------------------------------------------------------------
(* Properties *)

\* The geometry at index i of the loaded collection.
G(i) == gdf[i + 1]

Indices == 0..(n - 1)
AllPairs == {p \in Indices \X Indices : p[1] < p[2]}
AfterPairs == {"summary", "write", "report", "done"}

\* The pair {i, j} in the order the loop passes it to the predicates.
Lo(i, j) == IF i < j THEN i ELSE j
Hi(i, j) == IF i < j THEN j ELSE i

PairEquals(i, j) == equals(G(Lo(i, j)), G(Hi(i, j)))
PairOverlaps(i, j) ==
    /\ intersects(G(Lo(i, j)), G(Hi(i, j)))
    /\ ~touches(G(Lo(i, j)), G(Hi(i, j)))
PairCloser(i, j, t) ==
    /\ IsBaseGeometry(G(Hi(i, j)))
    /\ distance(G(Lo(i, j)), G(Hi(i, j))) < t

\* C1: in every state 'all' is the union of the five category sets, its
\* members are indices of the collection, and it has at most n members.
C1_UnionCorrect ==
    /\ sets["all"] = UNION {sets[c] : c \in Cats}
    /\ sets["all"] \subseteq Indices
    /\ Cardinality(sets["all"]) <= n

C1_Witness ==
    /\ pc = "done"
    /\ n = MaxN
    /\ sets["selfcross"] # {}
    /\ sets["near"] # {}
    /\ sets["all"] # Indices

\* C2: every pair (i, j), i < j, is evaluated exactly once, and an evaluation
\* updates at most one of duplicate, overlap, near.
C2_PairOnceOneCategory ==
    /\ DOMAIN evald \subseteq AllPairs
    /\ \A p \in DOMAIN evald :
          /\ Len(evald[p]) = 1
          /\ evald[p][1] \subseteq PairCats
          /\ Cardinality(evald[p][1]) <= 1
    /\ pc \in AfterPairs => DOMAIN evald = AllPairs

C2_Witness ==
    /\ pc = "done"
    /\ n = MaxN
    /\ \E p \in AllPairs :
          /\ evald[p] = <<{"duplicate"}>>
          /\ PairOverlaps(p[1], p[2])
          /\ PairCloser(p[1], p[2], terskel)

\* C3: after the pairwise loop the three pairwise sets are those of the
\* cascade duplicate -> overlap -> near, with a strict distance comparison.
C3_CascadeSets ==
    pc \in AfterPairs =>
        /\ sets["duplicate"] =
              {i \in Indices : \E j \in Indices \ {i} : PairEquals(i, j)}
        /\ sets["overlap"] =
              {i \in Indices : \E j \in Indices \ {i} :
                  ~PairEquals(i, j) /\ PairOverlaps(i, j)}
        /\ sets["near"] =
              {i \in Indices : \E j \in Indices \ {i} :
                  /\ ~PairEquals(i, j)
                  /\ ~PairOverlaps(i, j)
                  /\ PairCloser(i, j, terskel)}

C3_Witness ==
    /\ pc = "done"
    /\ \E i, j \in Indices :
          /\ i < j
          /\ ~PairOverlaps(i, j)
          /\ distance(G(i), G(j)) = terskel
          /\ i \notin sets["near"]
    /\ sets["duplicate"] # {}
    /\ sets["overlap"] = {}

\* C4: the single check puts a non-simple line in selfcross only, any other
\* invalid geometry in invalid, looking at that geometry alone; the two sets
\* are disjoint and the pairwise loop leaves them alone.
C4_SingleClassification ==
    /\ sets["selfcross"] =
          {i \in 0..(idx - 1) : IsLineString(G(i)) /\ ~G(i).simple}
    /\ sets["invalid"] =
          {i \in 0..(idx - 1) :
              /\ ~(IsLineString(G(i)) /\ ~G(i).simple)
              /\ IsBaseGeometry(G(i))
              /\ ~G(i).valid}
    /\ sets["selfcross"] \cap sets["invalid"] = {}

C4_Witness ==
    /\ pc = "pairs"
    /\ k > 1
    /\ \E i \in sets["selfcross"] : ~G(i).valid
    /\ sets["invalid"] # {}

\* Index kk holds a non-simple line and every other geometry is simple and valid.
LoneSelfCross(kk) ==
    /\ IsLineString(G(kk))
    /\ ~G(kk).simple
    /\ \A j \in Indices \ {kk} :
          IsBaseGeometry(G(j)) /\ G(j).simple /\ G(j).valid

\* C5 as stated: a lone self-crossing line is in selfcross and in no other
\* category.
C5_Original ==
    pc = "done" =>
        \A kk \in Indices :
            LoneSelfCross(kk) =>
                /\ kk \in sets["selfcross"]
                /\ \A c \in Cats \ {"selfcross"} : kk \notin sets[c]

\* C5 amended: a lone self-crossing line is in selfcross and not in invalid;
\* it is in duplicate, overlap or near exactly when the cascade puts a pair
\* that contains it there.
C5_SelfCrossOnly ==
    pc = "done" =>
        \A kk \in Indices :
            LoneSelfCross(kk) =>
                /\ kk \in sets["selfcross"]
                /\ kk \notin sets["invalid"]
                /\ \A c \in PairCats :
                      kk \in sets[c] <=>
                          \E j \in Indices \ {kk} :
                              c \in Cascade(G(Lo(kk, j)), G(Hi(kk, j)), terskel)

C5_Witness ==
    /\ pc = "done"
    /\ n = MaxN
    /\ \E kk \in Indices :
          /\ LoneSelfCross(kk)
          /\ kk \in sets["near"]
          /\ kk \notin sets["overlap"]

\* C6: of two completed runs on the same geometries the one with the smaller
\* threshold has the smaller (or equal) near set, and the other four category
\* sets are the same.
C6_ThresholdMonotone ==
    (pc = "done" /\ prev.run) =>
        /\ prev.terskel <= terskel => prev.sets["near"] \subseteq sets["near"]
        /\ terskel <= prev.terskel => sets["near"] \subseteq prev.sets["near"]
        /\ \A c \in Cats \ {"near"} : prev.sets[c] = sets[c]

C6_Witness ==
    /\ pc = "done"
    /\ prev.run
    /\ prev.terskel < terskel
    /\ prev.sets["near"] # sets["near"]
    /\ prev.sets["near"] # {}

StrictlyAscending(q) == \A a, b \in 1..Len(q) : a < b => q[a] < q[b]

\* C7: the extract lists exactly the members of 'all', each once, in
\* ascending order; it is written only when 'all' is not empty; the six
\* counts are the sizes of the six sets.
C7_ExtractAndCounts ==
    /\ extractWritten => StrictlyAscending(extract) /\ extract # << >>
    /\ pc \in {"report", "done"} =>
          /\ extractWritten <=> sets["all"] # {}
          /\ extractWritten =>
                /\ {extract[a] : a \in 1..Len(extract)} = sets["all"]
                /\ Len(extract) = Cardinality(sets["all"])
    /\ pc \in {"write", "report", "done"} =>
          \A c \in Keys : counts[c] = Cardinality(sets[c])

C7_Witness ==
    /\ pc = "done"
    /\ Len(extract) = 2
    /\ n = MaxN
    /\ extract[1] > 0
    /\ counts["all"] < counts["near"] + counts["selfcross"] + counts["overlap"]

\* C8: a predicate call that raises does not end the run, and the geometry
\* that caused it is recorded as invalid.
C8_PredicateFailureTolerated ==
    /\ pc # "crashed"
    /\ pc \in AfterPairs =>
          \A i \in Indices : (n > 1 /\ ~IsBaseGeometry(G(i))) => i \in sets["invalid"]

\* C9: a run that is aborted, by SIGINT or by a fatal I/O failure, never
\* leaves the error file written without the report.
C9_NoPartialOutput ==
    pc \in {"failed", "interrupted"} => ~(extractWritten /\ ~reportWritten)

\* C10: two completed runs on the same geometries with the same threshold
\* end with the same six sets and the same six counts, in whatever order
\* each of them evaluates the pairs.
C10_Deterministic ==
    (pc = "done" /\ prev.run /\ prev.terskel = terskel) =>
        /\ prev.sets = sets
        /\ prev.counts = counts

C10_Witness ==
    /\ pc = "done"
    /\ prev.run
    /\ prev.terskel = terskel
    /\ n = MaxN
    /\ sets["near"] # {}
    /\ sets["overlap"] # {}
    /\ sets["selfcross"] = {}

====
